---- MODULE Spec2Model ----
(***************************************************************************)
(* postrust-node: postcode + house number lookup over an embedded,        *)
(* brotli-compressed blob holding an FST key->offset index and a region   *)
(* of delta-encoded house number lists (src/src/lib.rs).                   *)
(*                                                                         *)
(* Three specifications over one set of variables:                        *)
(*   SpecCodec   decompress_house_numbers applied to byte slices           *)
(*   SpecLookup  lookup / lookup_batch over a loaded PostcodeData          *)
(*   Spec        threads calling the exported functions through the        *)
(*               process-wide OnceLock                                      *)
(* Strings and keys are sequences of byte values.                          *)
(***************************************************************************)
EXTENDS Integers, Sequences, FiniteSets, TLC

VARIABLES
    \* --- decompress_house_numbers applied to one slice
    compressed_data,   \* the slice handed to the decoder
    src_list,          \* the list a producer encoded into the slice (<<>> for raw bytes)
    decoded,           \* the decoder's return value
    cpc,               \* "start" | "raw" | "encoded" | "done_raw" | "done_encoded"
    \* --- lookup / lookup_batch over the loaded PostcodeData
    fst_map,           \* PostcodeData.fst_map: <<[key, offset], ...>> in ascending key order
    house_data,        \* PostcodeData.house_data: the list region
    lpc,               \* "idle" | "lookup_returned" | "batch_running" | "batch_returned"
    \* the frame of the current (or last returned) call; a new call replaces it
    postcode,          \* lookup's arguments
    huisnummer,
    ret,               \* lookup's return value
    examined,          \* the keys lookup's while loop took from the stream, in order
    queries,           \* lookup_batch's argument
    results,           \* lookup_batch's collected results
    \* --- the process: threads calling the exported functions
    blob,              \* COMPRESSED_DATA, the embedded file
    once,              \* POSTCODE_DATA's Once: "incomplete" | "running" | "poisoned" | "complete"
    cell,              \* POSTCODE_DATA's value slot
    tpc,               \* per thread: where it is in its call
    op,                \* per thread: the function it called
    calls,             \* per thread: calls made so far
    seen,              \* per thread: the instance its `data` reference pointed to (0: none yet)
    returned,          \* per thread: some call of it has returned Ok
    blocked,           \* the threads that have waited on the Once
    loads,             \* executions of load_data started
    stores,            \* values written to the slot
    aborted            \* the process was aborted by a panic leaving an exported function

codec_vars == <<compressed_data, src_list, decoded, cpc>>

lookup_vars == <<fst_map, house_data, lpc, postcode, huisnummer, ret, examined, queries, results>>

proc_vars == <<blob, once, cell, tpc, op, calls, seen, returned, blocked, loads, stores, aborted>>

vars == <<codec_vars, lookup_vars, proc_vars>>

(***************************************************************************)
(* Bounds                                                                  *)
(***************************************************************************)
MaxBytes == 7      \* longest raw slice handed to the decoder
MaxList == 3       \* longest list a producer encodes
MaxKeys == 2       \* most keys in a dataset
MaxBatch == 2      \* longest query list given to lookup_batch
NumThreads == 2    \* threads calling into the module
MaxCalls == 2      \* calls each thread makes

Bytes == {0, 1, 2, 255}                 \* byte values of raw slices
ListValues == {0, 1, 2, 256, 257, 600, 65535} \* uint16-range house numbers
Tails == {<<>>, <<0>>, <<1>>, <<0, 0, 0>>, <<255, 255>>} \* bytes following a list in the region

(***************************************************************************)
(* Program constants                                                       *)
(***************************************************************************)
U16Max == 65535    \* u16::MAX; u32::MAX is (U16Max + 1) * (U16Max + 1) - 1

ByteSeqs(n) == UNION {[1..k -> Bytes] : k \in 0..n}

Drop(s, n) == SubSeq(s, n + 1, Len(s))

(***************************************************************************)
(* Integer arithmetic of the decoder                                       *)
(***************************************************************************)
\* fault variant: the two bytes read big-endian
u16_from_le_bytes_be(b) == 256 * b[1] + b[2]

u16_from_le_bytes(b) == b[1] + 256 * b[2]

\* fault variant: the running value kept in 16 bits
add_u16(a, b) == [val |-> (a + b) % (U16Max + 1), ovf |-> a + b > U16Max]

\* u32 addition: the wrapped value, and whether the true sum left the range.
\* The sum is split into 16-bit halves (hi, lo): it leaves u32 when hi > u16::MAX.
add_u32(a, b) ==
    LET s == a + b
        hi == s \div (U16Max + 1)
        lo == s % (U16Max + 1)
    IN [val |-> (hi % (U16Max + 1)) * (U16Max + 1) + lo, ovf |-> hi > U16Max]

(***************************************************************************)
(* decompress_house_numbers                                                *)
(***************************************************************************)
\* the decoder's outcome: the values pushed, whether an addition overflowed
\* u32, whether a slice index went out of bounds (a panic)
DecodeResult(nums, ovf, panic) == [nums |-> nums, ovf |-> ovf, panic |-> panic]

\* fault variant: one value too many
loop_continues_le(nums, len) == Len(nums) <= len

\* while nums.len() < len
loop_continues(nums, len) == Len(nums) < len

\* if compressed_data.len() < 2 { break; } after a marker 0
escape_truncated(data) == Len(data) < 2

RECURSIVE decode_loop(_, _, _, _, _)
decode_loop(data, nums, last_num, len, ovf) ==
    IF ~loop_continues(nums, len) THEN DecodeResult(nums, ovf, FALSE)
    ELSE IF data = <<>> THEN DecodeResult(nums, ovf, FALSE)
    ELSE LET delta_marker == data[1]
             rest == Drop(data, 1)
         IN IF delta_marker = 0
            THEN IF escape_truncated(rest) THEN DecodeResult(nums, ovf, FALSE)
                 ELSE IF Len(rest) < 2 THEN DecodeResult(nums, ovf, TRUE)
                 ELSE LET d == u16_from_le_bytes(SubSeq(rest, 1, 2))
                          s == add_u32(last_num, d)
                      IN decode_loop(Drop(rest, 2), Append(nums, s.val), s.val,
                                     len, ovf \/ s.ovf)
            ELSE LET s == add_u32(last_num, delta_marker)
                 IN decode_loop(rest, Append(nums, s.val), s.val, len, ovf \/ s.ovf)

decompress_house_numbers(data) ==
    IF Len(data) < 2 THEN DecodeResult(<<>>, FALSE, FALSE)
    ELSE LET len == u16_from_le_bytes(SubSeq(data, 1, 2))
             d2 == Drop(data, 2)
         IN IF len = 0 THEN DecodeResult(<<>>, FALSE, FALSE)
            ELSE IF Len(d2) < 2 THEN DecodeResult(<<>>, FALSE, FALSE)
            ELSE LET first_num == u16_from_le_bytes(SubSeq(d2, 1, 2))
                 IN decode_loop(Drop(d2, 2), <<first_num>>, first_num, len, FALSE)

(***************************************************************************)
(* The producer's encoding of one list (spec section 4.1)                  *)
(***************************************************************************)
u16_to_le_bytes(v) == <<v % 256, v \div 256>>

RECURSIVE encode_deltas(_, _)
encode_deltas(prev, list) ==
    IF list = <<>> THEN <<>>
    ELSE LET delta == list[1] - prev
         IN (IF delta >= 1 /\ delta <= 255 THEN <<delta>>
             ELSE <<0>> \o u16_to_le_bytes(delta))
            \o encode_deltas(list[1], Tail(list))

encode_house_numbers(list) ==
    u16_to_le_bytes(Len(list) % (U16Max + 1))
    \o (IF list = <<>> THEN <<>>
        ELSE u16_to_le_bytes(list[1]) \o encode_deltas(list[1], Tail(list)))

RECURSIVE SortedSeq(_)
SortedSeq(S) ==
    IF S = {} THEN <<>>
    ELSE LET m == CHOOSE x \in S : \A y \in S : x <= y
         IN <<m>> \o SortedSeq(S \ {m})

IncreasingLists == {SortedSeq(S) : S \in {T \in SUBSET ListValues : Cardinality(T) <= MaxList}}

(***************************************************************************)
(* load_data and the OnceLock                                              *)
(***************************************************************************)
Threads == 1..NumThreads

Ops == {"init", "get_info", "lookup", "lookup_batch"}

HeaderLen == 16    \* the two u64 length fields

\* The embedded file, as far as load_data looks at it: whether brotli can
\* decompress it, the length of the decompressed data, the two length fields
\* of its header, and whether the index segment is a valid FST.
Blob(brotli_ok, len, fst_len, house_data_len, fst_ok) ==
    [brotli_ok |-> brotli_ok, len |-> len, fst_len |-> fst_len,
     house_data_len |-> house_data_len, fst_ok |-> fst_ok]

Blobs ==
    { Blob(TRUE, 16, 0, 0, TRUE), Blob(TRUE, 18, 2, 0, TRUE), Blob(TRUE, 21, 2, 2, TRUE),
      Blob(FALSE, 0, 0, 0, FALSE),         \* not a brotli stream
      Blob(TRUE, 12, 0, 0, TRUE),          \* cut inside the header
      Blob(TRUE, 16, 2, 0, TRUE),          \* index segment longer than the data
      Blob(TRUE, 18, 2, 2, TRUE),          \* list region longer than the data
      Blob(TRUE, 18, 2, 0, FALSE) }        \* index segment is not an FST

NoData == [set |-> FALSE]

\* a PostcodeData value, as made by the id-th execution of load_data
PostcodeData(fst_len, house_data_len, id) ==
    [set |-> TRUE, fst_map |-> [valid |-> TRUE, len |-> fst_len],
     house_data |-> [len |-> house_data_len], id |-> id]

\* a slice data[from..to] is in bounds
slice_ok(len, from, to) == from <= to /\ to <= len

\* fault variant: the Map::new error ignored
map_new_unchecked(b) == TRUE

\* Map::new(fst_bytes) is Ok
map_new_ok(b) == b.fst_ok

Panic == [panic |-> TRUE]

\* load_data: a panic, or the PostcodeData it returns
load_data(b, id) ==
    IF ~b.brotli_ok THEN Panic
    ELSE IF ~slice_ok(b.len, 0, 8) \/ ~slice_ok(b.len, 8, HeaderLen) THEN Panic
    ELSE IF ~slice_ok(b.len, HeaderLen, HeaderLen + b.fst_len) THEN Panic
    ELSE IF ~slice_ok(b.len, HeaderLen + b.fst_len,
                      HeaderLen + b.fst_len + b.house_data_len) THEN Panic
    ELSE IF ~map_new_ok(b) THEN Panic
    ELSE [panic |-> FALSE, data |-> PostcodeData(b.fst_len, b.house_data_len, id)]

\* fault variant: a check without the Once, so a second caller also runs the closure
may_begin_init_racy(state) == state # "complete"

\* Once::call_once_force: the caller that finds the Once incomplete (or
\* poisoned by a panicked initializer) runs the closure
may_begin_init(state) == state \in {"incomplete", "poisoned"}

ProcIdle ==
    /\ blob = Blob(TRUE, 16, 0, 0, TRUE)
    /\ once = "incomplete"
    /\ cell = NoData
    /\ tpc = [t \in Threads |-> "idle"]
    /\ op = [t \in Threads |-> "init"]
    /\ calls = [t \in Threads |-> 0]
    /\ seen = [t \in Threads |-> 0]
    /\ returned = [t \in Threads |-> FALSE]
    /\ blocked = {}
    /\ loads = 0
    /\ stores = 0
    /\ aborted = FALSE

(***************************************************************************)
(* lookup_address_fst                                                      *)
(***************************************************************************)
Delimiter == 124   \* '|'

\* fault variant: the postal code used as given
to_uppercase_identity(s) == s

\* str::to_uppercase on ASCII text
to_uppercase(s) == [i \in 1..Len(s) |-> IF s[i] >= 97 /\ s[i] <= 122 THEN s[i] - 32 ELSE s[i]]

\* format!("{}|", postcode_upper)
prefix_of(postcode_upper) == Append(postcode_upper, Delimiter)

\* the automaton Str::new(&prefix).starts_with() accepts a key
starts_with(prefix, key) == Len(key) >= Len(prefix) /\ SubSeq(key, 1, Len(prefix)) = prefix

\* fault variant: a stream over the whole map
search_all(map, prefix) == map

\* fst_map.search(automaton).into_stream(): the entries the automaton accepts,
\* in the map's (ascending) key order
search(map, prefix) == SelectSeq(map, LAMBDA e : starts_with(prefix, e.key))

\* std::str::from_utf8(key_bytes).unwrap_or(""): over ASCII bytes and 0xFF, a
\* key is valid UTF-8 iff it holds no byte above 0x7F
from_utf8_or_empty(key_bytes) ==
    IF \A i \in 1..Len(key_bytes) : key_bytes[i] < 128 THEN key_bytes ELSE <<>>

\* key_str.split('|').collect(): the parts between the delimiters
RECURSIVE split_from(_, _)
split_from(s, cur) ==
    IF s = <<>> THEN <<cur>>
    ELSE IF s[1] = Delimiter THEN <<cur>> \o split_from(Tail(s), <<>>)
    ELSE split_from(Tail(s), Append(cur, s[1]))

split(s) == split_from(s, <<>>)

\* slice::binary_search(..).is_ok(): halving search for x
RECURSIVE binary_search_from(_, _, _, _)
binary_search_from(nums, x, base, size) ==
    IF size > 1
    THEN LET half == size \div 2
             mid == base + half
         IN binary_search_from(nums, x, IF nums[mid + 1] > x THEN base ELSE mid, size - half)
    ELSE nums[base + 1] = x

binary_search(nums, x) == IF Len(nums) = 0 THEN FALSE ELSE binary_search_from(nums, x, 0, Len(nums))

None == [some |-> FALSE]

LookupResult(pc, straat, nr, woonplaats) ==
    [some |-> TRUE, postcode |-> pc, straat |-> straat, huisnummer |-> nr,
     woonplaats |-> woonplaats]

\* fault variant: extra parts tolerated
three_parts_or_more(parts) == Len(parts) >= 3

\* if parts.len() == 3
three_parts(parts) == Len(parts) = 3

\* the while loop over the stream; visited collects the keys taken from it
RECURSIVE scan(_, _, _, _, _)
scan(stream, region, postcode_upper, house_number, visited) ==
    IF stream = <<>> THEN [ret |-> None, examined |-> visited]
    ELSE LET key_bytes == stream[1].key
             offset == stream[1].offset
             key_str == from_utf8_or_empty(key_bytes)
             house_numbers == decompress_house_numbers(Drop(region, offset)).nums
             parts == split(key_str)
         IN IF binary_search(house_numbers, house_number) /\ three_parts(parts)
            THEN [ret |-> LookupResult(postcode_upper, parts[2], house_number, parts[3]),
                  examined |-> Append(visited, key_bytes)]
            ELSE scan(Tail(stream), region, postcode_upper, house_number,
                      Append(visited, key_bytes))

lookup_address_fst(map, region, pc, house_number) ==
    LET postcode_upper == to_uppercase(pc)
        prefix == prefix_of(postcode_upper)
    IN scan(search(map, prefix), region, postcode_upper, house_number, <<>>)

\* pub fn lookup: the Option it returns
lookup(pc, house_number) == lookup_address_fst(fst_map, house_data, pc, house_number).ret

\* fault variant: results collected in reverse
collect_push_front(acc, r) == <<r>> \o acc

\* .map(..).collect(): the next result goes to the end of the Vec
collect_push(acc, r) == Append(acc, r)

(***************************************************************************)
(* Datasets: sorted keys, each mapped to the offset of its list            *)
(***************************************************************************)
\* "A|S|C" "A|T|C" "A|S" "A|S|C|D" "AB|S|C" "a|S|C" "A|\xFF|C"
KeyPool ==
    { <<65, 124, 83, 124, 67>>, <<65, 124, 84, 124, 67>>, <<65, 124, 83>>,
      <<65, 124, 83, 124, 67, 124, 68>>, <<65, 66, 124, 83, 124, 67>>,
      <<97, 124, 83, 124, 67>>, <<65, 124, 255, 124, 67>> }

\* [1, 3]; [3]; a list of 2 cut after its first value, so that decoding runs
\* into whatever follows it in the region
ListPool == { <<2, 0, 1, 0, 2>>, <<1, 0, 3, 0>>, <<2, 0, 1, 0>> }

\* "A" "a" "A|S" "a|s" "Ab" ""
Postcodes == { <<65>>, <<97>>, <<65, 124, 83>>, <<97, 124, 115>>, <<65, 98>>, <<>> }

HouseNumbers == {1, 2, 3}

\* the queries batches are drawn from: ("a", 1) ("a", 3) ("A|S", 3) ("Ab", 2)
BatchQueries ==
    { <<(<<97>>), 1>>, <<(<<97>>), 3>>, <<(<<65, 124, 83>>), 3>>, <<(<<65, 98>>), 2>> }

\* byte-wise lexicographic order, the order an fst::Map keeps its keys in
RECURSIVE LessBytes(_, _)
LessBytes(a, b) ==
    IF b = <<>> THEN FALSE
    ELSE IF a = <<>> THEN TRUE
    ELSE IF a[1] # b[1] THEN a[1] < b[1]
    ELSE LessBytes(Tail(a), Tail(b))

RECURSIVE SortKeys(_)
SortKeys(K) ==
    IF K = {} THEN <<>>
    ELSE LET m == CHOOSE x \in K : \A y \in K \ {x} : LessBytes(x, y)
         IN <<m>> \o SortKeys(K \ {m})

RECURSIVE Concat(_)
Concat(ss) == IF ss = <<>> THEN <<>> ELSE ss[1] \o Concat(Tail(ss))

\* the map a builder produces from sorted keys ks whose lists are written to
\* the region one after the other
BuildMap(ks, lists) ==
    [i \in 1..Len(ks) |-> [key |-> ks[i], offset |-> Len(Concat(SubSeq(lists, 1, i - 1)))]]

(***************************************************************************)
(* SpecLookup                                                              *)
(***************************************************************************)
LookupIdle ==
    /\ lpc = "idle"
    /\ postcode = <<>>
    /\ huisnummer = 0
    /\ ret = None
    /\ examined = <<>>
    /\ queries = <<>>
    /\ results = <<>>
    /\ fst_map = <<>>
    /\ house_data = <<>>

CodecIdle ==
    /\ compressed_data = <<>>
    /\ src_list = <<>>
    /\ decoded = DecodeResult(<<>>, FALSE, FALSE)
    /\ cpc = "start"

\* the state after load_data: some dataset
LookupInit ==
    /\ CodecIdle
    /\ ProcIdle
    /\ \E K \in SUBSET KeyPool :
          /\ Cardinality(K) <= MaxKeys
          /\ \E lists \in [1..Cardinality(K) -> ListPool] :
                /\ fst_map = BuildMap(SortKeys(K), lists)
                /\ house_data = Concat(lists)
    /\ lpc = "idle"
    /\ postcode = <<>>
    /\ huisnummer = 0
    /\ ret = None
    /\ examined = <<>>
    /\ queries = <<>>
    /\ results = <<>>

Lookup ==
    /\ lpc # "batch_running"
    /\ \E pc \in Postcodes, n \in HouseNumbers :
          LET r == lookup_address_fst(fst_map, house_data, pc, n)
          IN /\ postcode' = pc
             /\ huisnummer' = n
             /\ ret' = r.ret
             /\ examined' = r.examined
    /\ lpc' = "lookup_returned"
    /\ queries' = <<>>
    /\ results' = <<>>
    /\ UNCHANGED <<fst_map, house_data, codec_vars, proc_vars>>

LookupBatchCall ==
    /\ lpc # "batch_running"
    /\ \E k \in 0..MaxBatch : \E qs \in [1..k -> BatchQueries] : queries' = qs
    /\ results' = <<>>
    /\ lpc' = "batch_running"
    /\ postcode' = <<>>
    /\ huisnummer' = 0
    /\ ret' = None
    /\ examined' = <<>>
    /\ UNCHANGED <<fst_map, house_data, codec_vars, proc_vars>>

\* one element of queries.iter().map(..)
LookupBatchMap ==
    /\ lpc = "batch_running"
    /\ Len(results) < Len(queries)
    /\ LET q == queries[Len(results) + 1]
       IN results' = collect_push(results,
                        lookup_address_fst(fst_map, house_data, q[1], q[2]).ret)
    /\ UNCHANGED <<fst_map, house_data, lpc, postcode, huisnummer, ret, examined, queries,
                   codec_vars, proc_vars>>

\* the iterator is exhausted: Ok(results)
LookupBatchReturn ==
    /\ lpc = "batch_running"
    /\ Len(results) >= Len(queries)
    /\ lpc' = "batch_returned"
    /\ UNCHANGED <<fst_map, house_data, postcode, huisnummer, ret, examined, queries, results,
                   codec_vars, proc_vars>>

LookupNext == Lookup \/ LookupBatchCall \/ LookupBatchMap \/ LookupBatchReturn

SpecLookup == LookupInit /\ [][LookupNext]_vars

(***************************************************************************)
(* Spec: the exported functions called from several threads                *)
(***************************************************************************)
Init ==
    /\ CodecIdle
    /\ LookupIdle
    /\ blob \in Blobs
    /\ once = "incomplete"
    /\ cell = NoData
    /\ tpc = [t \in Threads |-> "idle"]
    /\ op = [t \in Threads |-> "init"]
    /\ calls = [t \in Threads |-> 0]
    /\ seen = [t \in Threads |-> 0]
    /\ returned = [t \in Threads |-> FALSE]
    /\ blocked = {}
    /\ loads = 0
    /\ stores = 0
    /\ aborted = FALSE

\* a thread enters init, get_info, lookup or lookup_batch: POSTCODE_DATA.get_or_init
Call(t) ==
    /\ ~aborted
    /\ tpc[t] = "idle"
    /\ calls[t] < MaxCalls
    /\ \E o \in Ops : op' = [op EXCEPT ![t] = o]
    /\ calls' = [calls EXCEPT ![t] = @ + 1]
    /\ tpc' = [tpc EXCEPT ![t] = "get_or_init"]
    /\ UNCHANGED <<blob, once, cell, seen, returned, blocked, loads, stores, aborted,
                   codec_vars, lookup_vars>>

\* get_or_init finds the value: the reference to it
GetInitialized(t) ==
    /\ ~aborted
    /\ tpc[t] = "get_or_init"
    /\ once = "complete"
    /\ seen' = [seen EXCEPT ![t] = cell.id]
    /\ tpc' = [tpc EXCEPT ![t] = "body"]
    /\ UNCHANGED <<blob, once, cell, op, calls, returned, blocked, loads, stores, aborted,
                   codec_vars, lookup_vars>>

\* get_or_init takes the Once and starts the closure: load_data()
BeginInit(t) ==
    /\ ~aborted
    /\ tpc[t] = "get_or_init"
    /\ may_begin_init(once)
    /\ once' = "running"
    /\ loads' = loads + 1
    /\ tpc' = [tpc EXCEPT ![t] = "load_data"]
    /\ UNCHANGED <<blob, cell, op, calls, seen, returned, blocked, stores, aborted,
                   codec_vars, lookup_vars>>

\* get_or_init finds another thread initializing: it waits
Block(t) ==
    /\ ~aborted
    /\ tpc[t] = "get_or_init"
    /\ once = "running"
    /\ tpc' = [tpc EXCEPT ![t] = "blocked"]
    /\ blocked' = blocked \cup {t}
    /\ UNCHANGED <<blob, once, cell, op, calls, seen, returned, loads, stores, aborted,
                   codec_vars, lookup_vars>>

\* the initializer is done, one way or the other: the waiter looks again
Wake(t) ==
    /\ ~aborted
    /\ tpc[t] = "blocked"
    /\ once # "running"
    /\ tpc' = [tpc EXCEPT ![t] = "get_or_init"]
    /\ UNCHANGED <<blob, once, cell, op, calls, seen, returned, blocked, loads, stores,
                   aborted, codec_vars, lookup_vars>>

\* load_data returned: the value is stored and the Once completes
FinishInit(t) ==
    /\ ~aborted
    /\ tpc[t] = "load_data"
    /\ ~load_data(blob, loads).panic
    /\ cell' = load_data(blob, loads).data
    /\ stores' = stores + 1
    /\ once' = "complete"
    /\ seen' = [seen EXCEPT ![t] = cell'.id]
    /\ tpc' = [tpc EXCEPT ![t] = "body"]
    /\ UNCHANGED <<blob, op, calls, returned, blocked, loads, aborted, codec_vars, lookup_vars>>

\* load_data panicked: unwinding drops the Once's completion guard, which
\* leaves the slot empty and the Once poisoned and wakes the waiters; a caller
\* of get_or_init (call_once_force) that finds it poisoned runs the closure again
PanicInit(t) ==
    /\ ~aborted
    /\ tpc[t] = "load_data"
    /\ load_data(blob, loads).panic
    /\ once' = "poisoned"
    /\ tpc' = [tpc EXCEPT ![t] = "unwinding"]
    /\ UNCHANGED <<blob, cell, op, calls, seen, returned, blocked, loads, stores, aborted,
                   codec_vars, lookup_vars>>

\* the panic reaches the exported extern "C" function, which cannot unwind:
\* the process aborts
Abort(t) ==
    /\ ~aborted
    /\ tpc[t] = "unwinding"
    /\ aborted' = TRUE
    /\ UNCHANGED <<blob, once, cell, tpc, op, calls, seen, returned, blocked, loads, stores,
                   codec_vars, lookup_vars>>

\* the rest of the function reads through `data` and returns Ok
Return(t) ==
    /\ ~aborted
    /\ tpc[t] = "body"
    /\ returned' = [returned EXCEPT ![t] = TRUE]
    /\ tpc' = [tpc EXCEPT ![t] = "idle"]
    /\ UNCHANGED <<blob, once, cell, op, calls, seen, blocked, loads, stores, aborted,
                   codec_vars, lookup_vars>>

Next ==
    \E t \in Threads :
        \/ Call(t)
        \/ GetInitialized(t)
        \/ BeginInit(t)
        \/ Block(t)
        \/ Wake(t)
        \/ FinishInit(t)
        \/ PanicInit(t)
        \/ Abort(t)
        \/ Return(t)

Spec == Init /\ [][Next]_vars

(***************************************************************************)
(* SpecCodec                                                               *)
(***************************************************************************)
CodecInit ==
    /\ compressed_data = <<>>
    /\ src_list = <<>>
    /\ decoded = DecodeResult(<<>>, FALSE, FALSE)
    /\ cpc = "start"
    /\ LookupIdle
    /\ ProcIdle

\* a caller slices the region at some offset: any bytes
TakeRawSlice ==
    /\ cpc = "start"
    /\ \E b \in ByteSeqs(MaxBytes) : compressed_data' = b
    /\ src_list' = <<>>
    /\ cpc' = "raw"
    /\ UNCHANGED <<decoded, lookup_vars, proc_vars>>

\* the slice starts at a list the producer encoded, other bytes follow it
TakeEncodedSlice ==
    /\ cpc = "start"
    /\ \E l \in IncreasingLists, t \in Tails :
          /\ src_list' = l
          /\ compressed_data' = encode_house_numbers(l) \o t
    /\ cpc' = "encoded"
    /\ UNCHANGED <<decoded, lookup_vars, proc_vars>>

Decode ==
    /\ cpc \in {"raw", "encoded"}
    /\ decoded' = decompress_house_numbers(compressed_data)
    /\ cpc' = IF cpc = "raw" THEN "done_raw" ELSE "done_encoded"
    /\ UNCHANGED <<compressed_data, src_list, lookup_vars, proc_vars>>

CodecNext == TakeRawSlice \/ TakeEncodedSlice \/ Decode

SpecCodec == CodecInit /\ [][CodecNext]_vars

(***************************************************************************)
(* Properties of the codec (SpecCodec)                                     *)
(***************************************************************************)
CodecDone == cpc \in {"done_raw", "done_encoded"}

IsPrefix(s, t) == Len(s) <= Len(t) /\ SubSeq(t, 1, Len(s)) = s

\* the uint16 LE count a slice declares (0 when it has no room for one)
DeclaredCount(data) == IF Len(data) < 2 THEN 0 ELSE data[1] + 256 * data[2]

\* the complete entries of the delta stream that starts at byte 4 of a slice,
\* in order: marker 1..255 is the delta, marker 0 escapes a uint16 LE delta
RECURSIVE DeltaEntries(_)
DeltaEntries(stream) ==
    IF stream = <<>> THEN <<>>
    ELSE IF stream[1] # 0
         THEN <<[escaped |-> FALSE, delta |-> stream[1]]>> \o DeltaEntries(Drop(stream, 1))
    ELSE IF Len(stream) < 3 THEN <<>>
    ELSE <<[escaped |-> TRUE, delta |-> stream[2] + 256 * stream[3]]>>
         \o DeltaEntries(Drop(stream, 3))

\* C5: round trip. Decoding the bytes of an encoded strictly increasing list of
\* uint16-range values returns exactly that list, whatever bytes follow the
\* encoded list in the region.
C5_RoundTrip ==
    cpc = "done_encoded" =>
        /\ decoded.nums = src_list
        /\ ~decoded.panic

C5_Witness ==
    /\ cpc = "done_encoded"
    /\ Len(src_list) = 3
    /\ src_list[2] - src_list[1] <= 255
    /\ src_list[3] - src_list[2] > 255
    /\ Len(compressed_data) > Len(encode_house_numbers(src_list))
    /\ decoded.nums = src_list

\* C8: for every slice the decoder returns without an out-of-bounds read, with
\* at most `count` values; fewer than 2 bytes or count 0 give the empty list;
\* and a slice cut short decodes to a prefix of what the whole slice decodes to.
C8_TotalAndPrefix ==
    CodecDone =>
        /\ ~decoded.panic
        /\ Len(decoded.nums) <= DeclaredCount(compressed_data)
        /\ (Len(compressed_data) < 2 \/ DeclaredCount(compressed_data) = 0)
              => decoded.nums = <<>>
        /\ \A k \in 0..Len(compressed_data) :
              LET cut == decompress_house_numbers(SubSeq(compressed_data, 1, k))
              IN ~cut.panic /\ IsPrefix(cut.nums, decoded.nums)

\* count 2, first value, then an escape marker 0 with a single byte after it
C8_Witness ==
    /\ cpc = "done_raw"
    /\ Len(compressed_data) = 6
    /\ DeclaredCount(compressed_data) = 2
    /\ compressed_data[5] = 0
    /\ decoded.nums = <<compressed_data[3] + 256 * compressed_data[4]>>

\* C10: no addition last_num + delta leaves the u32 range: the i-th value is at
\* most 65535 * i and there are at most count <= 65535 values (65535 * 65535 is
\* below 2^32). So the decoded values never decrease, each differs from its
\* predecessor by its delta entry, and two neighbours are equal exactly where
\* the entry is an escaped delta of 0.
C10_NoOverflowMonotone ==
    CodecDone =>
        LET nums == decoded.nums
            entries == DeltaEntries(Drop(compressed_data, 4))
        IN /\ ~decoded.ovf
           /\ Len(nums) <= U16Max
           /\ \A i \in 1..Len(nums) : nums[i] >= 0 /\ nums[i] <= U16Max * i
           /\ \A i \in 1..(Len(nums) - 1) :
                 /\ nums[i] <= nums[i + 1]
                 /\ i <= Len(entries)
                 /\ nums[i + 1] = nums[i] + entries[i].delta
                 /\ (nums[i + 1] = nums[i]) <=> (entries[i].escaped /\ entries[i].delta = 0)

\* an escaped delta of 0: two equal neighbours
C10_Witness ==
    /\ cpc = "done_raw"
    /\ Len(decoded.nums) = 2
    /\ decoded.nums[1] = decoded.nums[2]
    /\ SubSeq(compressed_data, 5, 7) = <<0, 0, 0>>

(***************************************************************************)
(* Properties of lookup and lookup_batch (SpecLookup)                      *)
(***************************************************************************)
Elems(seq) == {seq[i] : i \in 1..Len(seq)}

HasPrefix(s, pre) == Len(s) >= Len(pre) /\ \A i \in 1..Len(pre) : s[i] = pre[i]

IsLower(c) == c >= 97 /\ c <= 122

UpperByte(c) == IF IsLower(c) THEN c - 32 ELSE c

\* POSTAL_CODE_UPPER
Upper(s) == [i \in 1..Len(s) |-> UpperByte(s[i])]

DelimiterCount(s) == Cardinality({i \in 1..Len(s) : s[i] = Delimiter})

IsText(s) == \A i \in 1..Len(s) : s[i] < 128

\* the house numbers of the list found at an offset of the region
ListAt(offset) == Elems(decompress_house_numbers(Drop(house_data, offset)).nums)

KeysOfMap == {fst_map[i].key : i \in 1..Len(fst_map)}

OffsetOfKey(key) == (CHOOSE i \in 1..Len(fst_map) : fst_map[i].key = key)

ListOfKey(key) == ListAt(fst_map[OffsetOfKey(key)].offset)

\* key is P|STREET|CITY: P, a delimiter, a street, a delimiter, a city, where
\* street and city are text without the delimiter
KeyOfForm(key, P) ==
    /\ IsText(key)
    /\ HasPrefix(key, Append(P, Delimiter))
    /\ DelimiterCount(Drop(key, Len(P) + 1)) = 1

\* the parts a key splits into on the delimiter (none of them for a key that is
\* not text)
KeyParts(key) == split(from_utf8_or_empty(key))

\* a candidate whose list holds the queried number but whose key is malformed
MalformedMatch(key) == huisnummer \in ListOfKey(key) /\ Len(KeyParts(key)) # 3

\* a candidate lookup returns from
StructuralMatch(key) == huisnummer \in ListOfKey(key) /\ Len(KeyParts(key)) = 3

\* the keys of the dataset that begin with POSTAL_CODE_UPPER|, ascending
Candidates == SortKeys({k \in KeysOfMap : HasPrefix(k, Append(Upper(postcode), Delimiter))})

\* C1 (as stated): lookup returns Some iff the dataset holds a key of the form
\* POSTAL_CODE_UPPER|STREET|CITY whose decoded list contains house_number.
C1_SomeIffKeyOfForm ==
    lpc = "lookup_returned" =>
        (ret.some <=> \E k \in KeysOfMap :
                         KeyOfForm(k, Upper(postcode)) /\ huisnummer \in ListOfKey(k))

\* C1 holds of every postal code that does not itself contain the delimiter.
C1_DelimiterFreePostcode ==
    (lpc = "lookup_returned" /\ DelimiterCount(postcode) = 0) =>
        (ret.some <=> \E k \in KeysOfMap :
                         KeyOfForm(k, Upper(postcode)) /\ huisnummer \in ListOfKey(k))

\* C3: lookup_batch returns one result per query, in the order of the queries,
\* the i-th being what lookup returns for the i-th query, whatever the other
\* queries of the batch find.
C3_BatchIsMapOfLookup ==
    lpc = "batch_returned" =>
        /\ Len(results) = Len(queries)
        /\ \A i \in 1..Len(queries) : results[i] = lookup(queries[i][1], queries[i][2])

C3_Witness ==
    /\ lpc = "batch_returned"
    /\ Len(queries) = 2
    /\ queries[1] # queries[2]
    /\ results[1] = None
    /\ results[2].some
    /\ \E k \in KeysOfMap :
          /\ HasPrefix(k, Append(Upper(queries[1][1]), Delimiter))
          /\ queries[1][2] \in ListOfKey(k)

\* two postal codes that differ only in letter case
DifferOnlyInCase(p, q) == Len(p) = Len(q) /\ \A i \in 1..Len(p) : UpperByte(p[i]) = UpperByte(q[i])

\* C4: lookup gives the same result for postal codes that differ only in letter
\* case, and the postcode of a result is in upper case.
C4_CaseInsensitive ==
    lpc = "lookup_returned" =>
        /\ \A q \in Postcodes :
              DifferOnlyInCase(q, postcode) => lookup(q, huisnummer) = ret
        /\ ret.some => /\ \A i \in 1..Len(ret.postcode) : ~IsLower(ret.postcode[i])
                       /\ ret.postcode = Upper(postcode)
                       /\ ret.huisnummer = huisnummer

C4_Witness ==
    /\ lpc = "lookup_returned"
    /\ \E i \in 1..Len(postcode) : IsLower(postcode[i])
    /\ ret.some
    /\ \E q \in Postcodes : q # postcode /\ DifferOnlyInCase(q, postcode)

\* C6: a candidate whose list holds the number but whose key does not split
\* into exactly three parts is skipped: lookup does not return from it, and the
\* next candidate of the prefix search, if there is one, is examined.
C6_MalformedSkipped ==
    lpc = "lookup_returned" =>
        \A i \in 1..Len(examined) :
            MalformedMatch(examined[i]) =>
                /\ ~(ret.some /\ i = Len(examined))
                /\ i < Len(Candidates) =>
                      (Len(examined) > i /\ examined[i + 1] = Candidates[i + 1])

C6_Witness ==
    /\ lpc = "lookup_returned"
    /\ Len(examined) >= 2
    /\ MalformedMatch(examined[1])
    /\ ret.some

\* C9: lookup visits the keys that begin with POSTAL_CODE_UPPER| and no others,
\* in ascending byte order, up to and including the first whose list holds the
\* number and whose key splits into three parts; it returns that key's street
\* and city. Without such a key it visits them all and returns None.
C9_FirstStructuralMatchWins ==
    lpc = "lookup_returned" =>
        LET hits == {i \in 1..Len(Candidates) : StructuralMatch(Candidates[i])}
        IN IF hits = {}
           THEN ret = None /\ examined = Candidates
           ELSE LET m == CHOOSE i \in hits : \A j \in hits : i <= j
                    parts == KeyParts(Candidates[m])
                IN /\ examined = SubSeq(Candidates, 1, m)
                   /\ ret = LookupResult(Upper(postcode), parts[2], huisnummer, parts[3])

\* two keys could answer; the first does, the second is never examined
C9_Witness ==
    /\ lpc = "lookup_returned"
    /\ ret.some
    /\ Cardinality({k \in Elems(Candidates) : StructuralMatch(k)}) >= 2
    /\ Len(examined) < Len(Candidates)

(***************************************************************************)
(* Properties of initialization (Spec)                                     *)
(***************************************************************************)
\* the embedded file decompresses, holds both segments its header declares,
\* and its index segment is a valid FST
BlobSound ==
    /\ blob.brotli_ok
    /\ HeaderLen + blob.fst_len + blob.house_data_len <= blob.len
    /\ blob.fst_ok

\* the threads that are past get_or_init, or have returned from a call
HoldsData(t) == tpc[t] = "body" \/ returned[t]

Unwinding == {t \in Threads : tpc[t] = "unwinding"}

\* C2 (as stated): load_data is executed at most once in the process, exactly
\* one initialization succeeds, no caller gets past get_or_init before it has
\* completed, and all callers observe the same instance.
C2_LoadDataAtMostOnce ==
    /\ loads <= 1
    /\ stores <= 1
    /\ \A t \in Threads : HoldsData(t) => (once = "complete" /\ stores = 1)
    /\ \A t \in Threads : seen[t] # 0 => (cell.set /\ seen[t] = cell.id)

\* C2 (amended): load_data is never executed by two callers at once, and is
\* executed a second time only after an execution that panicked; at most one
\* initialization succeeds, exactly one has once a caller is past get_or_init;
\* all callers observe the same instance.
C2_AtMostOneSuccessfulInit ==
    /\ Cardinality({t \in Threads : tpc[t] = "load_data"}) <= 1
    /\ loads <= 1 + Cardinality(Unwinding)
    /\ stores <= 1
    /\ \A t \in Threads : HoldsData(t) => (once = "complete" /\ stores = 1)
    /\ \A t \in Threads : seen[t] # 0 => (cell.set /\ seen[t] = cell.id)

\* two threads made their first calls at once: one loaded, the other waited,
\* both returned with the same instance
C2_Witness ==
    /\ loads = 1
    /\ \A t \in Threads : returned[t] /\ seen[t] = cell.id
    /\ blocked # {}
    /\ \E t, u \in Threads : op[t] # op[u]

\* C7: on corrupt data load_data panics and the slot is never written: the
\* slot only ever holds the dataset loaded in full from a sound file, and no
\* call gets past get_or_init or returns without it.
C7_CorruptDataIsFatal ==
    /\ cell.set => /\ BlobSound
                   /\ cell.fst_map = [valid |-> TRUE, len |-> blob.fst_len]
                   /\ cell.house_data = [len |-> blob.house_data_len]
    /\ \A t \in Threads : HoldsData(t) => cell.set
    /\ ~BlobSound => /\ stores = 0
                     /\ \A t \in Threads : ~HoldsData(t) /\ seen[t] = 0
                     /\ loads = Cardinality(Unwinding)
                           + Cardinality({t \in Threads : tpc[t] = "load_data"})
    /\ aborted => ~BlobSound

\* the index segment is not an FST: the first call aborted the process
C7_Witness ==
    /\ aborted
    /\ blob.brotli_ok
    /\ ~blob.fst_ok
    /\ ~cell.set
    /\ \E t \in Threads : tpc[t] = "blocked" \/ tpc[t] = "get_or_init"

====
